---- MODULE Spec2Model ----
(***************************************************************************)
(* A model of devito/targets/basic.py: the registry of rewriters keyed by  *)
(* platform class (TargetsMap), the rewriter harness (Target) and the      *)
(* lowering entry point (iet_lower) with its profiling report.             *)
(*                                                                         *)
(* Python values are encoded as follows.                                   *)
(*   - a class is its name (a string); the class hierarchy is Parent;      *)
(*   - a mode is a record [tag, val]: None is tag "none", a string s is    *)
(*     tag "str" with val = <<s>>, a tuple or a list of pass identifiers   *)
(*     is tag "tuple" or "list" with val the identifiers in order;         *)
(*   - option values are strings ("True", "False", "None", "2", ...);      *)
(*   - a dict is a function; an insertion-ordered dict whose order matters *)
(*     (the registry, the caller's options, the timing ledger) is a        *)
(*     sequence of key/value records with unique keys;                     *)
(*   - an exception is the name of its class.                              *)
(***************************************************************************)
EXTENDS Integers, Sequences, FiniteSets, TLC

VARIABLES registry, ncalls, configuration, last

vars == <<registry, ncalls, configuration, last>>

(***************************************************************************)
(* Bounds of the model.                                                    *)
(***************************************************************************)
\* Calls of TargetsMap.add in one run.
MaxAdds == 3
\* Entries of the options mapping a caller passes to iet_lower.
MaxOptions == 2
\* Length of a pass sequence given as the mode.
MaxPasses == 2

(***************************************************************************)
(* Generic helpers on sequences.                                           *)
(***************************************************************************)
Range(s) == {s[i] : i \in 1..Len(s)}

\* The first index of s whose element satisfies Test, 0 when there is none.
FirstIndex(s, Test(_)) ==
    IF \E i \in 1..Len(s) : Test(s[i])
    THEN CHOOSE i \in 1..Len(s) : Test(s[i]) /\ \A j \in 1..(i - 1) : ~Test(s[j])
    ELSE 0

(***************************************************************************)
(* The class hierarchy (devito.archinfo): single inheritance below object. *)
(***************************************************************************)
Classes == {"object", "Platform", "Cpu64", "Intel64", "Arm", "Device", "Compiler"}

Parent(c) ==
    CASE c = "Platform" -> "object"
      [] c = "Cpu64"    -> "Platform"
      [] c = "Intel64"  -> "Cpu64"
      [] c = "Arm"      -> "Cpu64"
      [] c = "Device"   -> "Platform"
      [] c = "Compiler" -> "object"
      [] OTHER          -> "object"

\* cls.mro(): the class, then its ancestors up to object.
RECURSIVE Mro(_)
Mro(c) == IF c = "object" THEN <<"object">> ELSE <<c>> \o Mro(Parent(c))

\* issubclass(k, c)
IsSubclass(k, c) == c \in Range(Mro(k))

(***************************************************************************)
(* Modes.                                                                  *)
(***************************************************************************)
NoneMode == [tag |-> "none", val |-> <<>>]
Str(s) == [tag |-> "str", val |-> <<s>>]
Tuple(s) == [tag |-> "tuple", val |-> s]
List(s) == [tag |-> "list", val |-> s]

\* A list is not hashable: it cannot be looked up in a dict.
Hashable(mode) == mode.tag # "list"

\* dle_registry = ('noop', 'advanced')
dle_registry == <<Str("noop"), Str("advanced")>>

(***************************************************************************)
(* TargetsMap: an OrderedDict  platform class -> mapper.                   *)
(* A mapper object is [kind, id, map]: kind "dict" or not, id its identity *)
(* and map the function  mode -> factory.  A factory is [mapper, key].     *)
(***************************************************************************)
Factory(id, key) == [mapper |-> id, key |-> key]
NoFactory == [mapper |-> 0, key |-> NoneMode]

Mapper(kind, id, keys) ==
    [kind |-> kind, id |-> id, map |-> [k \in keys |-> Factory(id, k)]]

Keys(reg) == {reg[i].key : i \in 1..Len(reg)}

\* A faulty __setitem__: re-registering a key drops its entry and appends anew.
SetItemMoveToEnd(reg, key, value) ==
    Append(SelectSeq(reg, LAMBDA e : e.key # key), [key |-> key, value |-> value])

\* OrderedDict.__setitem__: a new key is appended, an existing key keeps its
\* position and takes the new value.
SetItem(reg, key, value) ==
    IF key \in Keys(reg)
    THEN [i \in 1..Len(reg) |->
            IF reg[i].key = key THEN [key |-> key, value |-> value] ELSE reg[i]]
    ELSE Append(reg, [key |-> key, value |-> value])

\* A faulty check: one baseline mode is enough.
AddAcceptsAny(platform, mapper) ==
    /\ IsSubclass(platform, "Platform")
    /\ mapper.kind = "dict"
    /\ \E i \in 1..Len(dle_registry) : dle_registry[i] \in DOMAIN mapper.map

\* The three assertions of TargetsMap.add.
AddAccepts(platform, mapper) ==
    /\ IsSubclass(platform, "Platform")
    /\ mapper.kind = "dict"
    /\ \A i \in 1..Len(dle_registry) : dle_registry[i] \in DOMAIN mapper.map

\* TargetsMap.add(platform, mapper): the registry after the call and how the
\* call ended.
AddResult(reg, platform, mapper) ==
    IF AddAccepts(platform, mapper)
    THEN [status |-> "ok", registry |-> SetItem(reg, platform, mapper)]
    ELSE [status |-> "AssertionError", registry |-> reg]

\* v[mode] for the mapper v of a registry entry.
GetItem(mapper, mode) ==
    IF ~Hashable(mode) THEN [status |-> "TypeError", factory |-> NoFactory]
    ELSE IF mode \in DOMAIN mapper.map
         THEN [status |-> "ok", factory |-> mapper.map[mode]]
         ELSE [status |-> "KeyError", factory |-> NoFactory]

\* The inner loop of fetch for one class of the mro: the first entry, in
\* insertion order, whose key passes issubclass(k, cls); 0 when none does.
Scan(reg, cls) == FirstIndex(reg, LAMBDA e : IsSubclass(e.key, cls))

\* TargetsMap.fetch(platform, mode) for an instance of class `platform`.
FetchResult(reg, platform, mode) ==
    LET mro == Mro(platform)
        hit == FirstIndex(mro, LAMBDA cls : Scan(reg, cls) # 0)
    IN  IF hit = 0
        THEN [status |-> "KeyError", factory |-> NoFactory]
        ELSE GetItem(reg[Scan(reg, mro[hit])].value, mode)

(***************************************************************************)
(* Inputs of the registry operations.                                      *)
(***************************************************************************)
AddPlatforms == {"Cpu64", "Intel64", "Arm", "Compiler"}
InstanceClasses == {"Cpu64", "Intel64", "Arm", "Device"}

BaseKeys == {Str("noop"), Str("advanced")}
MapperKeySets ==
    { BaseKeys,
      BaseKeys \cup {Str("custom")},
      BaseKeys \cup {Str("custom"), Tuple(<<"mpi">>)},
      {Str("noop"), Str("custom")} }
MapperKinds == {"dict", "list"}

FetchModes ==
    { Str("noop"), Str("advanced"), Str("custom"), Tuple(<<"mpi">>),
      List(<<"blk">>) }

DefaultConfiguration ==
    [platform |-> "Intel64", openmp |-> "False", mpi |-> "False",
     dle_options |-> [k \in {} |-> "None"], profiling |-> "off"]

(***************************************************************************)
(* The registry operations as actions.                                     *)
(***************************************************************************)
Init ==
    /\ registry = <<>>
    /\ ncalls = 0
    /\ configuration = DefaultConfiguration
    /\ last = [op |-> "none"]

Add ==
    /\ ncalls < MaxAdds
    /\ \E platform \in AddPlatforms, kind \in MapperKinds, keys \in MapperKeySets :
         LET mapper == Mapper(kind, ncalls + 1, keys)
             res == AddResult(registry, platform, mapper)
         IN  /\ registry' = res.registry
             /\ last' = [op |-> "add", platform |-> platform, mapper |-> mapper,
                         status |-> res.status, prior |-> registry]
    /\ ncalls' = ncalls + 1
    /\ UNCHANGED configuration

Fetch ==
    /\ \E platform \in InstanceClasses, mode \in FetchModes :
         LET res == FetchResult(registry, platform, mode)
         IN  last' = [op |-> "fetch", platform |-> platform, mode |-> mode,
                      status |-> res.status, factory |-> res.factory]
    /\ UNCHANGED <<registry, ncalls, configuration>>

Next == Add \/ Fetch

Spec == Init /\ [][Next]_vars

(***************************************************************************)
(* iet_lower: option resolution.                                           *)
(***************************************************************************)
ParamKeys == {"blockinner", "blocklevels", "openmp", "mpi"}

\* dict.get(key, default)
DictGet(d, key, default) == IF key \in DOMAIN d THEN d[key] ELSE default

\* bool(v) for the option values of the model.
Truthy(v) == v \notin {"False", "None", "0"}

\* The default options: params before the caller's options are parsed.
DefaultParams(config) ==
    [k \in ParamKeys |->
        CASE k = "blockinner"  -> DictGet(config.dle_options, "blockinner", "False")
          [] k = "blocklevels" -> DictGet(config.dle_options, "blocklevels", "None")
          [] k = "openmp"      -> config.openmp
          [] k = "mpi"         -> config.mpi]

\* A faulty loop: an unknown key is warned about and stored all the same.
RECURSIVE ParseOptionsKeepsUnknown(_, _)
ParseOptionsKeepsUnknown(start, options) ==
    IF options = <<>>
    THEN [params |-> start, warnings |-> <<>>]
    ELSE LET prev == ParseOptionsKeepsUnknown(start, SubSeq(options, 1, Len(options) - 1))
             o == options[Len(options)]
         IN  IF o.key \notin DOMAIN prev.params
             THEN [params |-> (o.key :> o.value) @@ prev.params,
                   warnings |-> Append(prev.warnings, o.key)]
             ELSE [params |-> [prev.params EXCEPT ![o.key] = o.value],
                   warnings |-> prev.warnings]

\* The loop over the caller's options, in their order: an entry whose key is
\* not in params gives a warning, any other entry replaces the value.
RECURSIVE ParseOptions(_, _)
ParseOptions(start, options) ==
    IF options = <<>>
    THEN [params |-> start, warnings |-> <<>>]
    ELSE LET prev == ParseOptions(start, SubSeq(options, 1, Len(options) - 1))
             o == options[Len(options)]
         IN  IF o.key \notin DOMAIN prev.params
             THEN [params |-> prev.params, warnings |-> Append(prev.warnings, o.key)]
             ELSE [params |-> [prev.params EXCEPT ![o.key] = o.value],
                   warnings |-> prev.warnings]

(***************************************************************************)
(* iet_lower: mode resolution.                                             *)
(***************************************************************************)
\* A faulty resolution: None falls through to the treatment of 'noop'.
ResolveModeNoneAsNoop(mode, params) ==
    IF mode = NoneMode \/ mode = Str("noop")
    THEN LET on == SelectSeq(<<"mpi", "openmp">>, LAMBDA i : Truthy(params[i]))
         IN  IF on # <<>> THEN Tuple(on) ELSE Str("noop")
    ELSE mode

ResolveMode(mode, params) ==
    IF mode = NoneMode
    THEN Str("noop")
    ELSE IF mode = Str("noop")
         THEN LET on == SelectSeq(<<"mpi", "openmp">>, LAMBDA i : Truthy(params[i]))
              IN  IF on # <<>> THEN Tuple(on) ELSE Str("noop")
         ELSE mode

(***************************************************************************)
(* iet_lower: fetching the rewriter, with the fallback to 'custom'.        *)
(* Calling a factory runs code of the backend: c1 and c2 are how the call  *)
(* of the fetched factory, and of the 'custom' factory, would end.         *)
(***************************************************************************)
ConstructOutcomes == {"ok", "KeyError", "ValueError"}

\* A rewriter: the factory that built it and the arguments it was built with
\* (passes is NoneMode when no pass sequence was given).
Rewriter(factory, passes, params, platform) ==
    [factory |-> factory, passes |-> passes, params |-> params, platform |-> platform]
NoRewriter == Rewriter(NoFactory, NoneMode, [k \in {} |-> "None"], "object")

\* The except clause: targets.fetch(platform, 'custom')(mode, params, platform)
CustomRewriter(reg, platform, mode, params, c2) ==
    LET f == FetchResult(reg, platform, Str("custom"))
    IN  IF f.status # "ok"
        THEN [status |-> f.status, rewriter |-> NoRewriter,
              events |-> <<"fetch_custom">>]
        ELSE IF c2 # "ok"
        THEN [status |-> c2, rewriter |-> NoRewriter,
              events |-> <<"fetch_custom", "construct_custom">>]
        ELSE [status |-> "ok", rewriter |-> Rewriter(f.factory, mode, params, platform),
              events |-> <<"fetch_custom", "construct_custom">>]

\* A faulty fallback: the pass sequence is not handed to the custom factory.
FetchRewriterDropsMode(reg, platform, mode, params, c1, c2) ==
    LET f == FetchResult(reg, platform, mode)
        fallback == CustomRewriter(reg, platform, NoneMode, params, c2)
    IN  IF f.status = "KeyError"
        THEN [fallback EXCEPT !.events = <<"fetch">> \o @]
        ELSE IF f.status # "ok"
        THEN [status |-> f.status, rewriter |-> NoRewriter, events |-> <<"fetch">>]
        ELSE IF c1 = "ok"
        THEN [status |-> "ok", rewriter |-> Rewriter(f.factory, NoneMode, params, platform),
              events |-> <<"fetch", "construct">>]
        ELSE IF c1 = "KeyError"
        THEN [fallback EXCEPT !.events = <<"fetch", "construct">> \o @]
        ELSE [status |-> c1, rewriter |-> NoRewriter, events |-> <<"fetch", "construct">>]

\* The try statement: the lookup and the call of the factory are both inside
\* it, and a KeyError of either one leads to the except clause.
FetchRewriter(reg, platform, mode, params, c1, c2) ==
    LET f == FetchResult(reg, platform, mode)
        fallback == CustomRewriter(reg, platform, mode, params, c2)
    IN  IF f.status = "KeyError"
        THEN [fallback EXCEPT !.events = <<"fetch">> \o @]
        ELSE IF f.status # "ok"
        THEN [status |-> f.status, rewriter |-> NoRewriter, events |-> <<"fetch">>]
        ELSE IF c1 = "ok"
        THEN [status |-> "ok", rewriter |-> Rewriter(f.factory, NoneMode, params, platform),
              events |-> <<"fetch", "construct">>]
        ELSE IF c1 = "KeyError"
        THEN [fallback EXCEPT !.events = <<"fetch", "construct">> \o @]
        ELSE [status |-> c1, rewriter |-> NoRewriter, events |-> <<"fetch", "construct">>]


(***************************************************************************)
(* Target.process and the Graph it threads through the passes.             *)
(* A pass is code of the backend: `fault` says which pass of the pipeline, *)
(* if any, raises and what, and `elapsed` the time each pass takes, in     *)
(* milliseconds.                                                           *)
(***************************************************************************)
\* The characters of a pass identifier.
Chars(pass) ==
    CASE pass = "blk"      -> <<"b", "l", "k">>
      [] pass = "v8"       -> <<"v", "8">>
      [] pass = "mpi"      -> <<"m", "p", "i">>
      [] pass = "openmp"   -> <<"o", "m", "p">>
      [] pass = "advanced" -> <<"a", "d", "v">>
      [] OTHER             -> <<"x">>

Digits == {"0", "1", "2", "3", "4", "5", "6", "7", "8", "9"}
DigitChar(n) == <<"0", "1", "2", "3", "4", "5", "6", "7", "8", "9">>[(n % 10) + 1]

\* The ledger's label of a pass: its identifier, suffixed with the number of
\* entries already recorded when that identifier is taken.
Label(timings, pass) ==
    IF Chars(pass) \in {timings[i].key : i \in 1..Len(timings)}
    THEN Append(Chars(pass), DigitChar(Len(timings)))
    ELSE Chars(pass)

\* The passes a rewriter runs: the sequence it was built with on the custom
\* path, else the pipeline of its factory (Target._pipeline is empty).
Pipeline(rewriter) ==
    IF rewriter.passes # NoneMode THEN rewriter.passes.val
    ELSE IF rewriter.factory.key = Str("advanced") THEN <<"blk", "blk">>
    ELSE IF rewriter.factory.key.tag = "tuple" THEN rewriter.factory.key.val
    ELSE <<>>

NoFault == [at |-> 0, exc |-> "none"]
NoGraph == [root |-> [iet |-> "none", applied |-> <<>>], timings |-> <<>>]

\* The state of the run after the first n passes of the pipeline: the passes
\* started, the one that raised (0: none) and the graph.
RECURSIVE RunPasses(_, _, _, _, _)
RunPasses(iet, pipeline, n, fault, elapsed) ==
    IF n = 0
    THEN [status |-> "ok", started |-> <<>>, failed |-> 0,
          graph |-> [root |-> [iet |-> iet, applied |-> <<>>], timings |-> <<>>]]
    ELSE LET prev == RunPasses(iet, pipeline, n - 1, fault, elapsed)
             pass == pipeline[n]
         IN  IF prev.status # "ok" THEN prev
             ELSE IF fault.at = n
             THEN [prev EXCEPT !.status = fault.exc, !.started = Append(@, pass),
                               !.failed = n]
             ELSE [status |-> "ok",
                   started |-> Append(prev.started, pass),
                   failed |-> 0,
                   graph |->
                     [root |-> [iet |-> iet,
                                applied |-> Append(prev.graph.root.applied, pass)],
                      timings |-> Append(prev.graph.timings,
                                         [key |-> Label(prev.graph.timings, pass),
                                          value |-> elapsed[n]])]]

\* A faulty harness: a failing pass is noted and the passes after it run.
ProcessContinuesAfterFailure(rewriter, iet, fault, elapsed) ==
    LET pipeline == Pipeline(rewriter)
        run == RunPasses(iet, pipeline, Len(pipeline), NoFault, elapsed)
    IN  [status |-> "ok", started |-> run.started,
         failed |-> IF fault.at \in 1..Len(pipeline) THEN fault.at ELSE 0,
         graph |-> run.graph]

\* Target.process(iet): graph = Graph(iet); self._pipeline(graph); return graph
Process(rewriter, iet, fault, elapsed) ==
    LET run == RunPasses(iet, Pipeline(rewriter), Len(Pipeline(rewriter)), fault, elapsed)
    IN  IF run.status = "ok"
        THEN [status |-> "ok", started |-> run.started, failed |-> 0,
              graph |-> run.graph]
        ELSE [status |-> run.status, started |-> run.started, failed |-> run.failed,
              graph |-> NoGraph]

(***************************************************************************)
(* print_profiling: the message handed to the log.                         *)
(***************************************************************************)
RECURSIVE SumValues(_)
SumValues(timings) ==
    IF timings = <<>> THEN 0
    ELSE timings[1].value + SumValues(Tail(timings))

\* "%.2f" of a time: milliseconds rounded to hundredths of a second.
Fmt2(ms) == (ms + 5) \div 10

\* "".join(filter(lambda c: not c.isdigit(), k))
StripDigits(k) == SelectSeq(k, LAMBDA c : c \notin Digits)

\* sep.join(parts) for sequences of characters.
RECURSIVE Join(_, _)
Join(sep, parts) ==
    IF parts = <<>> THEN <<>>
    ELSE IF Len(parts) = 1 THEN parts[1]
    ELSE parts[1] \o <<sep>> \o Join(sep, Tail(parts))

\* A faulty report: the short summary is dropped.
PrintProfilingDetailedOnly(graph, config) ==
    LET timings == graph.timings
    IN  IF config.profiling \in {"basic", "advanced"}
        THEN << [format |-> "detailed",
                 rows |-> [i \in 1..Len(timings) |->
                             <<StripDigits(timings[i].key), Fmt2(timings[i].value)>>],
                 passes |-> <<>>,
                 total |-> Fmt2(SumValues(timings))] >>
        ELSE <<>>

\* print_profiling(graph): the messages it logs.
PrintProfiling(graph, config) ==
    LET timings == graph.timings
    IN  IF config.profiling \in {"basic", "advanced"}
        THEN << [format |-> "detailed",
                 rows |-> [i \in 1..Len(timings) |->
                             <<StripDigits(timings[i].key), Fmt2(timings[i].value)>>],
                 passes |-> <<>>,
                 total |-> Fmt2(SumValues(timings))] >>
        ELSE << [format |-> "terse",
                 rows |-> <<>>,
                 passes |-> Join(",", [i \in 1..Len(timings) |-> timings[i].key]),
                 total |-> Fmt2(SumValues(timings))] >>


(***************************************************************************)
(* iet_lower(iet, mode, options): how the call ends and what it did.       *)
(* env holds what the backend's code does during the call: c1, c2 (the     *)
(* factory calls), fault and elapsed (the passes).                         *)
(***************************************************************************)
NoResult == [root |-> NoGraph.root, graph |-> NoGraph]

Repeat(e, n) == [i \in 1..n |-> e]

IetLowerResult(reg, config, iet, mode, options, env) ==
    LET parsed == ParseOptions(DefaultParams(config), options)
        params == parsed.params
        key == ResolveMode(mode, params)
        got == FetchRewriter(reg, config.platform, key, params, env.c1, env.c2)
        run == Process(got.rewriter, iet, env.fault, env.elapsed)
        log == PrintProfiling(run.graph, config)
        call == [op |-> "iet_lower", iet |-> iet, mode |-> mode, options |-> options,
                 status |-> "returned", params |-> params,
                 warnings |-> parsed.warnings, key |-> key,
                 rewriter |-> NoRewriter, started |-> <<>>, failed |-> 0,
                 log |-> <<>>,
                 result |-> NoResult, trace |-> <<>>]
        warned == Repeat("warning", Len(parsed.warnings))
    IN  IF iet # "Node"
        THEN [call EXCEPT !.status = "AssertionError", !.params = [k \in {} |-> "None"],
                          !.warnings = <<>>, !.key = NoneMode, !.trace = <<"raise">>]
        ELSE IF got.status # "ok"
        THEN [call EXCEPT !.status = got.status,
                          !.trace = warned \o got.events \o <<"raise">>]
        ELSE IF run.status # "ok"
        THEN [call EXCEPT !.status = run.status, !.rewriter = got.rewriter,
                          !.started = run.started, !.failed = run.failed,
                          !.trace = warned \o got.events
                                    \o Repeat("pass", Len(run.started)) \o <<"raise">>]
        ELSE [call EXCEPT !.rewriter = got.rewriter, !.started = run.started,
                          !.failed = run.failed, !.log = log,
                          !.result = [root |-> run.graph.root, graph |-> run.graph],
                          !.trace = warned \o got.events
                                    \o Repeat("pass", Len(run.started)) \o <<"graph">>
                                    \o Repeat("log", Len(log)) \o <<"return">>]

(***************************************************************************)
(* Inputs of iet_lower.                                                    *)
(***************************************************************************)
SeqsUpTo(S, n) == UNION {[1..m -> S] : m \in 0..n}

PassIds == {"blk", "v8"}
PassSequences == SeqsUpTo(PassIds, MaxPasses) \ {<<>>}

LowerModes ==
    {NoneMode, Str("noop"), Str("advanced")}
    \cup {Tuple(q) : q \in PassSequences}
    \cup {List(<<"blk", "v8">>)}

OptionEntries ==
    { [key |-> "blockinner", value |-> "True"],
      [key |-> "blocklevels", value |-> "2"],
      [key |-> "openmp", value |-> "True"],
      [key |-> "openmp", value |-> "False"],
      [key |-> "mpi", value |-> "True"],
      [key |-> "mpi", value |-> "False"],
      [key |-> "foobar", value |-> "1"],
      [key |-> "language", value |-> "openmp"] }

\* The caller's options: a dict, so no key occurs twice.
OptionDicts ==
    {o \in SeqsUpTo(OptionEntries, MaxOptions) :
        \A i, j \in 1..Len(o) : o[i].key = o[j].key => i = j}

FewOptionDicts ==
    { <<>>,
      <<[key |-> "openmp", value |-> "True"]>>,
      <<[key |-> "foobar", value |-> "1"]>> }

\* configuration['dle-options']
DleOptionDicts ==
    {[k \in S |-> IF k = "blockinner" THEN "True" ELSE "1"] :
        S \in SUBSET {"blockinner", "blocklevels"}}

ResolveConfigurations ==
    {[platform |-> "Intel64", openmp |-> o, mpi |-> m, dle_options |-> d,
      profiling |-> "off"] :
        o \in {"True", "False"}, m \in {"True", "False"}, d \in DleOptionDicts}

LowerConfigurations ==
    {[platform |-> p, openmp |-> "False", mpi |-> "False",
      dle_options |-> [k \in {} |-> "None"], profiling |-> v] :
        p \in {"Intel64", "Arm"}, v \in {"off", "advanced"}}

\* The longest pipeline a rewriter of the model runs.
PipelineMax == IF MaxPasses > 2 THEN MaxPasses ELSE 2

ElapsedMs == {4, 6}
Faults ==
    {NoFault} \cup {[at |-> i, exc |-> e] : i \in 1..PipelineMax,
                                            e \in {"KeyError", "ValueError"}}

Envs ==
    {[c1 |-> c1, c2 |-> c2, fault |-> f, elapsed |-> t] :
        c1 \in ConstructOutcomes, c2 \in ConstructOutcomes, f \in Faults,
        t \in [1..PipelineMax -> ElapsedMs]}

\* The backend's code works: factories build, passes run.
QuietEnvs == {e \in Envs : e.c1 = "ok" /\ e.c2 = "ok" /\ e.fault = NoFault
                           /\ \A i \in DOMAIN e.elapsed : e.elapsed[i] = 4}

\* The registry after the given calls of add, made in order on an empty one.
RECURSIVE RegistryAfter(_)
RegistryAfter(adds) ==
    IF adds = <<>> THEN <<>>
    ELSE AddResult(RegistryAfter(SubSeq(adds, 1, Len(adds) - 1)),
                   adds[Len(adds)][1],
                   Mapper("dict", Len(adds), adds[Len(adds)][2])).registry

FullKeys == BaseKeys \cup {Str("custom")}

\* What the initialization of a backend may leave in the registry.
LowerRegistries ==
    { RegistryAfter(<<>>),
      RegistryAfter(<< <<"Cpu64", BaseKeys>> >>),
      RegistryAfter(<< <<"Cpu64", FullKeys \cup {Tuple(<<"openmp">>)}>> >>),
      RegistryAfter(<< <<"Intel64", BaseKeys>>, <<"Cpu64", FullKeys>> >>) }

(***************************************************************************)
(* iet_lower as an action, and the specifications of the lowering.         *)
(***************************************************************************)
\* Calls are synchronous: one starts when the caller holds no outcome of an
\* earlier one.
IetLower(Iets, Modes, Options, Environments) ==
    /\ last.op = "none"
    /\ \E iet \in Iets, mode \in Modes, options \in Options, env \in Environments :
         last' = IetLowerResult(registry, configuration, iet, mode, options, env)
    /\ UNCHANGED <<registry, ncalls, configuration>>

\* The caller takes the outcome of the call (the returned pair or the
\* exception); nothing of the call is kept.
Return ==
    /\ last.op = "iet_lower"
    /\ last' = [op |-> "none"]
    /\ UNCHANGED <<registry, ncalls, configuration>>

\* Option and mode resolution over every options mapping and configuration,
\* with a backend whose code works.
InitResolve ==
    /\ registry = RegistryAfter(<< <<"Cpu64", FullKeys \cup {Tuple(<<"openmp">>)}>> >>)
    /\ ncalls = Len(registry)
    /\ configuration \in ResolveConfigurations
    /\ last = [op |-> "none"]

NextResolve == IetLower({"Node"}, LowerModes, OptionDicts, QuietEnvs) \/ Return

SpecResolve == InitResolve /\ [][NextResolve]_vars

\* The lowering over every registry content and behaviour of the backend.
InitLower ==
    /\ registry \in LowerRegistries
    /\ ncalls = Len(registry)
    /\ configuration \in LowerConfigurations
    /\ last = [op |-> "none"]

NextLower == IetLower({"Node", "str"}, LowerModes, FewOptionDicts, Envs) \/ Return

SpecLower == InitLower /\ [][NextLower]_vars


(***************************************************************************)
(* Claims about the registry, checked under Spec.                          *)
(***************************************************************************)
\* The registered entries whose class is `platform` or one of its ancestors.
Compatible(reg, platform) == {i \in 1..Len(reg) : IsSubclass(platform, reg[i].key)}

\* Among them, the entry of the class nearest to `platform` in its mro.
MostSpecific(reg, platform) ==
    LET mro == Mro(platform)
        at == FirstIndex(mro, LAMBDA cls : cls \in Keys(reg))
    IN  CHOOSE i \in 1..Len(reg) : reg[i].key = mro[at]

\* C1: when some registered class is the platform's class or an ancestor of
\* it, fetch(platform, mode) returns the factory stored under `mode` by the
\* most specific such class; a sibling or a descendant is never selected.
C1_FetchMostSpecific ==
    (/\ last.op = "fetch"
     /\ Compatible(registry, last.platform) # {}
     /\ last.mode \in DOMAIN registry[MostSpecific(registry, last.platform)].value.map)
    => /\ last.status = "ok"
       /\ last.factory =
            registry[MostSpecific(registry, last.platform)].value.map[last.mode]

\* C2: fetch fails with KeyError whenever no registered class is the
\* platform's class or one of its ancestors; it never returns a factory of an
\* unrelated registration.
C2_FetchUnrelatedFails ==
    (last.op = "fetch" /\ Compatible(registry, last.platform) = {})
    => (last.status = "KeyError" /\ last.factory = NoFactory)

\* C3: add fails, leaving the registry as it was, when the platform is no
\* subclass of Platform, when the mapper is no dict or when it lacks 'noop' or
\* 'advanced'; hence every entry of the registry has a Platform subclass as
\* key and a dict holding both baseline modes as value.
C3_AddValidates ==
    /\ \A i \in 1..Len(registry) :
         /\ "Platform" \in Range(Mro(registry[i].key))
         /\ registry[i].value.kind = "dict"
         /\ Str("noop") \in DOMAIN registry[i].value.map
         /\ Str("advanced") \in DOMAIN registry[i].value.map
    /\ last.op = "add" =>
         ((\/ "Platform" \notin Range(Mro(last.platform))
           \/ last.mapper.kind # "dict"
           \/ Str("noop") \notin DOMAIN last.mapper.map
           \/ Str("advanced") \notin DOMAIN last.mapper.map)
          => (last.status = "AssertionError" /\ registry = last.prior))

\* A dict lacking 'advanced' was refused for a Platform subclass while the
\* registry already held an entry.
C3_Witness ==
    /\ last.op = "add"
    /\ last.status = "AssertionError"
    /\ last.platform = "Cpu64"
    /\ last.mapper.kind = "dict"
    /\ Str("noop") \in DOMAIN last.mapper.map
    /\ Str("advanced") \notin DOMAIN last.mapper.map
    /\ Len(registry) > 0

\* fetch(platform, mode) selected the entry registered for the class of the
\* platform itself.
SelectsOwnEntry(reg, platform) ==
    /\ Scan(reg, platform) # 0
    /\ reg[Scan(reg, platform)].key = platform

\* C10 as stated: an add never replaces, removes or moves an existing entry,
\* also when it is for an already registered class, and fetches that resolved
\* to the entry of the platform's own class keep their result.
C10_AddNeverReplaces ==
    last.op = "add" =>
      /\ Len(registry) >= Len(last.prior)
      /\ \A i \in 1..Len(last.prior) : registry[i] = last.prior[i]
      /\ \A p \in InstanceClasses, m \in FetchModes :
           SelectsOwnEntry(last.prior, p)
           => FetchResult(registry, p, m) = FetchResult(last.prior, p, m)

\* C10 amended: an add never removes or moves an entry, and it leaves the
\* mapper of every class other than the one it registers; a successful add
\* for an already registered class replaces that class's mapper in place.
\* Fetches that resolved to the entry of the platform's own class keep their
\* result unless that class is the one registered again.
C10_AddKeepsKeysAndOrder ==
    last.op = "add" =>
      /\ Len(registry) >= Len(last.prior)
      /\ \A i \in 1..Len(last.prior) :
           /\ registry[i].key = last.prior[i].key
           /\ IF last.status = "ok" /\ last.prior[i].key = last.platform
              THEN registry[i].value = last.mapper
              ELSE registry[i].value = last.prior[i].value
      /\ \A p \in InstanceClasses, m \in FetchModes :
           (SelectsOwnEntry(last.prior, p) /\ ~(last.status = "ok" /\ p = last.platform))
           => FetchResult(registry, p, m) = FetchResult(last.prior, p, m)

\* A class that was registered first of two is registered again with another
\* mapper.
C10_Witness ==
    /\ last.op = "add"
    /\ last.status = "ok"
    /\ Len(last.prior) = 2
    /\ last.prior[1].key = last.platform
    /\ last.prior[1].value # last.mapper

(***************************************************************************)
(* Claims about iet_lower: option and mode resolution, under SpecResolve.  *)
(***************************************************************************)
Count(seq, x) == Cardinality({i \in 1..Len(seq) : seq[i] = x})
Supplied(options, k) == \E i \in 1..Len(options) : options[i].key = k
SuppliedValue(options, k) == options[CHOOSE i \in 1..Len(options) : options[i].key = k].value

\* C4: None resolves to 'noop'; 'noop' resolves to the tuple of those of
\* 'mpi', 'openmp', in that order, whose resolved option is true, and to
\* 'noop' when neither is; any other mode is the lookup key unchanged.
C4_ModeResolution ==
    (last.op = "iet_lower" /\ last.iet = "Node") =>
      LET mpi == last.params["mpi"] = "True"
          openmp == last.params["openmp"] = "True"
      IN  /\ last.mode = NoneMode => last.key = Str("noop")
          /\ last.mode = Str("noop") =>
               /\ (mpi /\ openmp) => last.key = Tuple(<<"mpi", "openmp">>)
               /\ (mpi /\ ~openmp) => last.key = Tuple(<<"mpi">>)
               /\ (~mpi /\ openmp) => last.key = Tuple(<<"openmp">>)
               /\ (~mpi /\ ~openmp) => last.key = Str("noop")
          /\ last.mode \notin {NoneMode, Str("noop")} => last.key = last.mode

\* 'noop' was requested with mpi enabled by the caller's options and openmp
\* by the configuration.
C4_Witness ==
    /\ last.op = "iet_lower"
    /\ last.mode = Str("noop")
    /\ last.options = <<[key |-> "mpi", value |-> "True"]>>
    /\ configuration.openmp = "True" /\ configuration.mpi = "False"
    /\ last.key = Tuple(<<"mpi", "openmp">>)

\* What C5 holds of every call, whatever the defaults are: the resolved set
\* has exactly the four recognized keys, every other supplied key gives one
\* warning, a supplied recognized key holds the supplied value, and the call
\* goes on to the lookup.
OptionsParsed ==
    /\ DOMAIN last.params = {"blockinner", "blocklevels", "openmp", "mpi"}
    /\ \A k \in {"blockinner", "blocklevels", "openmp", "mpi", "foobar", "language"} :
         /\ (Supplied(last.options, k) /\ k \notin {"blockinner", "blocklevels", "openmp", "mpi"})
            => Count(last.warnings, k) = 1
         /\ (~Supplied(last.options, k) \/ k \in {"blockinner", "blocklevels", "openmp", "mpi"})
            => Count(last.warnings, k) = 0
         /\ (Supplied(last.options, k) /\ k \in {"blockinner", "blocklevels", "openmp", "mpi"})
            => last.params[k] = SuppliedValue(last.options, k)
    /\ ~Supplied(last.options, "openmp") => last.params["openmp"] = configuration.openmp
    /\ ~Supplied(last.options, "mpi") => last.params["mpi"] = configuration.mpi
    /\ Len(last.trace) > Len(last.warnings)
    /\ last.trace[Len(last.warnings) + 1] = "fetch"

Lowered == last.op = "iet_lower" /\ last.iet = "Node"
Lookup == FetchResult(registry, configuration.platform, last.key)
CustomLookup == FetchResult(registry, configuration.platform, Str("custom"))
WarningEvents == [i \in 1..Len(last.warnings) |-> "warning"]

\* C6: when the lookup of (platform, effective mode) fails as not found, the
\* 'custom' factory of the same platform is looked up and called with
\* (effective mode, options, platform), the mode unchanged; when the 'custom'
\* lookup fails too, that failure reaches the caller: nothing else is tried,
\* no rewriter runs, nothing is returned.
C6_CustomFallback ==
    (Lowered /\ Lookup.status = "KeyError") =>
      IF CustomLookup.status = "ok"
      THEN /\ last.trace[Len(last.warnings) + 2] = "fetch_custom"
           /\ last.trace[Len(last.warnings) + 3] = "construct_custom"
           /\ last.rewriter # NoRewriter =>
                /\ last.rewriter.factory = CustomLookup.factory
                /\ last.rewriter.passes = last.key
                /\ last.rewriter.params = last.params
                /\ last.rewriter.platform = configuration.platform
      ELSE /\ last.status = CustomLookup.status
           /\ last.status = "KeyError"
           /\ last.rewriter = NoRewriter
           /\ last.started = <<>>
           /\ last.result = NoResult
           /\ last.log = <<>>
           /\ last.trace = WarningEvents \o <<"fetch", "fetch_custom", "raise">>

\* The sequence (blk, v8), registered by no platform, was handed to the
\* custom factory and the call returned.
C6_Witness ==
    /\ Lowered
    /\ last.key = Tuple(<<"blk", "v8">>)
    /\ Lookup.status = "KeyError"
    /\ CustomLookup.status = "ok"
    /\ last.status = "returned"
    /\ last.rewriter.factory = CustomLookup.factory
    /\ last.rewriter.passes = Tuple(<<"blk", "v8">>)

\* C7: when a pass fails, no later pass runs, process returns no Graph, and
\* iet_lower hands the failure to its caller, KeyError included, with no
\* result and no profiling message.
C7_PassFailureAborts ==
    (Lowered /\ last.failed # 0) =>
      /\ last.status \in {"KeyError", "ValueError"}
      /\ last.started = SubSeq(Pipeline(last.rewriter), 1, last.failed)
      /\ last.result = NoResult
      /\ last.log = <<>>
      /\ \A i \in 1..Len(last.trace) : last.trace[i] \notin {"graph", "log", "return"}
      /\ last.trace[Len(last.trace)] = "raise"
      /\ last.trace[Len(last.trace) - 1] = "pass"
      /\ Count(last.trace, "pass") = last.failed

\* The first of two passes raised KeyError.
C7_Witness ==
    /\ Lowered
    /\ last.failed = 1
    /\ Len(Pipeline(last.rewriter)) = 2
    /\ last.status = "KeyError"
    /\ last.started = <<"blk">>

RECURSIVE LedgerTotal(_, _)
LedgerTotal(timings, n) ==
    IF n = 0 THEN 0 ELSE LedgerTotal(timings, n - 1) + timings[n].value

\* C8: a call that returns logs exactly one profiling message, in either
\* format, after process has returned and right before the call returns; the
\* message lists the ledger's entries in their order and its total is the sum
\* of the recorded times (printed to a hundredth of a second).
C8_OneProfilingMessage ==
    (Lowered /\ last.status = "returned") =>
      LET timings == last.result.graph.timings
          n == Len(last.trace)
          msg == last.log[1]
          total == LedgerTotal(timings, Len(timings))
      IN  /\ Len(last.log) = 1
          /\ Count(last.trace, "log") = 1
          /\ n >= 3
          /\ last.trace[n] = "return" /\ last.trace[n - 1] = "log"
          /\ last.trace[n - 2] = "graph"
          /\ Len(timings) = Len(last.started)
          /\ 10 * msg.total - 5 <= total /\ total < 10 * msg.total + 5
          /\ configuration.profiling \in {"basic", "advanced"} =>
               /\ msg.format = "detailed"
               /\ Len(msg.rows) = Len(timings)
               /\ \A i \in 1..Len(timings) :
                    /\ msg.rows[i][1] =
                         SelectSeq(timings[i].key, LAMBDA c : c \notin Digits)
                    /\ 10 * msg.rows[i][2] - 5 <= timings[i].value
                    /\ timings[i].value < 10 * msg.rows[i][2] + 5
          /\ configuration.profiling \notin {"basic", "advanced"} =>
               /\ msg.format = "terse"
               /\ msg.passes = Join(",", [i \in 1..Len(timings) |-> timings[i].key])

\* Two passes of 4 ms each were reported in detail: each line shows 0.00 s
\* and the total 0.01 s.
C8_Witness ==
    /\ Lowered
    /\ last.status = "returned"
    /\ Len(last.log) = 1
    /\ last.log[1].format = "detailed"
    /\ Len(last.log[1].rows) = 2
    /\ last.log[1].rows[1][2] = 0 /\ last.log[1].rows[2][2] = 0
    /\ last.log[1].total = 1

\* C9: the 'custom' fallback is taken only when the lookup itself failed as
\* not found; when the lookup succeeds, the rewriter is the one the fetched
\* factory builds with (options, platform), and a failure of that call,
\* KeyError included, reaches the caller.
C9_FallbackOnlyWhenNotFound ==
    (Lowered /\ Lookup.status = "ok") =>
      /\ \A i \in 1..Len(last.trace) : last.trace[i] # "fetch_custom"
      /\ last.rewriter # NoRewriter =>
           last.rewriter = Rewriter(Lookup.factory, NoneMode, last.params,
                                    configuration.platform)

====
